---------------------------- MODULE Spec2Model ----------------------------
(***************************************************************************)
(* Inheritance resolution of the schema layer: edb/schema/inheriting.py    *)
(* (linearization, base deltas, rebase, reference-collection merge) and    *)
(* edb/schema/referencing.py (propagation of referenced members).          *)
(*                                                                         *)
(* A schema value is immutable: an operation that raises leaves the schema *)
(* it was given untouched, so a failed operation changes only the record   *)
(* of the last operation (op).                                             *)
(***************************************************************************)
EXTENDS Integers, Sequences, FiniteSets, TLC

VARIABLES
    exists,      \* names of the entities present in the schema
    bases,       \* entity -> its `bases` field (sequence of entity names)
    ancestors,   \* entity -> its `ancestors` field: [set |-> FALSE] is None
    full,        \* entity -> key -> member in the full collection, or NoMember
    local,       \* entity -> key -> member in the local collection, or NoMember
    attrs,       \* member -> its fields (declared_inherited, kind, merge bases)
    hasDefault,  \* TRUE: the class has a default base (ObjectType); FALSE: none
    refdict,     \* the RefDict descriptor of the collection
    context,     \* the delta context the commands run in
    non_inheritable,
                 \* entity -> the keys in its non-inheritable collection
    op,          \* the last command applied and how it ended
    lin,         \* the linearization in progress: the loop state of _merge_mro
    nrebase,     \* number of rebase commands applied so far
    dOld,        \* delta_bases: old base names
    dNew,        \* delta_bases: new base names
    dScript,     \* delta_bases: the (removed, added) script returned
    dResult,     \* the base list reconstructed from dOld with dScript
    dpc          \* position of the delta round trip

vars == <<exists, bases, ancestors, full, local, attrs, hasDefault, refdict, context,
          non_inheritable,
          op, lin, nrebase,
          dOld, dNew, dScript, dResult, dpc>>

hierVars == <<exists, bases, ancestors>>
refVars == <<full, local, attrs>>
classVars == <<hasDefault, refdict, context, non_inheritable>>
deltaVars == <<dOld, dNew, dScript, dResult, dpc>>

-----------------------------------------------------------------------------
(* Bounds of the model *)

\* longest base list enumerated as an input of delta_bases
MaxLen == 3

\* longest base list a create or a rebase is given or may leave
MaxBases == 2

\* depth at which the interpreter stops a recursion (RecursionError); any
\* depth above the number of entities tells a cyclic base graph from an
\* acyclic one
RecursionLimit == 6

\* number of rebase commands applied in one behaviour
MaxRebases == 1

\* members a schema holds under one key at a time
MaxMembers == 3

-----------------------------------------------------------------------------
(* Names *)

\* the class default base (ObjectType.get_default_base_name: std::Object)
DefaultBaseName == "Object"

\* base names given to delta_bases
BaseNames == {"A", "B", "C", DefaultBaseName}

-----------------------------------------------------------------------------
(* Sequences *)

Range(s) == {s[i] : i \in 1..Len(s)}

IsUnique(s) == \A i, j \in 1..Len(s) : s[i] = s[j] => i = j

RECURSIVE SeqsUpTo(_, _)
\* all sequences over S of length at most n
SeqsUpTo(S, n) ==
    IF n = 0 THEN {<<>>}
    ELSE LET shorter == SeqsUpTo(S, n - 1)
         IN  shorter \cup {Append(s, x) : s \in shorter, x \in S}

UniqueSeqs(S, n) == {s \in SeqsUpTo(S, n) : IsUnique(s)}

\* list.remove(x): drops the first occurrence of x
RemoveFirst(s, x) ==
    LET hits == {i \in 1..Len(s) : s[i] = x}
    IN  IF hits = {} THEN s
        ELSE LET k == CHOOSE i \in hits : \A j \in hits : i <= j
             IN  SubSeq(s, 1, k - 1) \o SubSeq(s, k + 1, Len(s))

\* s[idx:idx + len(ins)] = ins: the inserted names overwrite what follows
Splice_Overwrites(s, idx, ins) ==
    SubSeq(s, 1, idx) \o ins \o SubSeq(s, idx + 1 + Len(ins), Len(s))

\* s[idx:idx] = ins, with idx counted from 0
Splice(s, idx, ins) == SubSeq(s, 1, idx) \o ins \o SubSeq(s, idx + 1, Len(s))

\* {name: i for i, name in enumerate(s)}[x]: the last position of x, from 0
IndexOf(s, x) ==
    LET hits == {i \in 1..Len(s) : s[i] = x}
    IN  (CHOOSE i \in hits : \A j \in hits : j <= i) - 1

Filter(s, S) == SelectSeq(s, LAMBDA x : x \in S)

-----------------------------------------------------------------------------
(* delta_bases *)

Group(names, pos, ref) == [bases |-> names, pos |-> pos, ref |-> ref]

NoRef == "-"

RECURSIVE delta_walk(_, _, _, _, _, _, _)
\* the loop over new_bases: i, j index new_bases and common_bases from 1
delta_walk(new_bases, common_bases, i, j, added_bases, added_base_refs, added_set) ==
    IF i > Len(new_bases)
    THEN [added |-> added_bases, refs |-> added_base_refs, set |-> added_set]
    ELSE IF common_bases[j] = new_bases[i]
    THEN LET flushed == IF added_base_refs # <<>>
                        THEN Append(added_bases,
                                    Group(added_base_refs, "BEFORE", common_bases[j]))
                        ELSE added_bases
         IN  IF j + 1 > Len(common_bases)
             THEN [added |-> flushed, refs |-> <<>>, set |-> added_set]
             ELSE delta_walk(new_bases, common_bases, i + 1, j + 1,
                             flushed, <<>>, added_set)
    ELSE delta_walk(new_bases, common_bases, i + 1, j, added_bases,
                    Append(added_base_refs, new_bases[i]),
                    added_set \cup {new_bases[i]})

\* delta_bases with every new-only base put in one group at the end
delta_bases_AllLast(old_bases, new_bases) ==
    LET fresh == SelectSeq(new_bases, LAMBDA b : b \notin Range(old_bases))
    IN  [removed |-> Range(old_bases) \ Range(new_bases),
         added |-> IF fresh = <<>> THEN <<>>
                   ELSE <<Group(fresh, "LAST", NoRef)>>]

\* delta_bases with the symmetric difference taken for `dropped`
delta_bases_SymmetricDrop(old_bases, new_bases) ==
    [removed |-> (Range(old_bases) \ Range(new_bases)) \cup
                 (Range(new_bases) \ Range(old_bases)),
     added |-> delta_bases_AllLast(old_bases, new_bases).added]

delta_bases(old_bases, new_bases) ==
    LET dropped == Range(old_bases) \ Range(new_bases)
        common_bases == SelectSeq(old_bases, LAMBDA b : b \notin dropped)
        walked == IF common_bases # <<>>
                  THEN delta_walk(new_bases, common_bases, 1, 1, <<>>, <<>>, {})
                  ELSE [added |-> <<>>, refs |-> <<>>, set |-> {}]
        tail_bases == walked.refs \o
                      SelectSeq(new_bases,
                                LAMBDA b : b \notin walked.set
                                           /\ b \notin Range(common_bases))
        added_bases == IF tail_bases # <<>>
                       THEN Append(walked.added, Group(tail_bases, "LAST", NoRef))
                       ELSE walked.added
    IN  [removed |-> dropped, added |-> added_bases]

-----------------------------------------------------------------------------
(* RebaseInheritingObject.apply: reconstruction of the base list *)

RECURSIVE remove_walk(_, _, _, _)
\* `for b in bases: if name in removed: bases.remove(b) else existing.add(name)`
\* the list is changed while it is iterated: i is the iterator's position
remove_walk(cur, removed_bases, i, existing_bases) ==
    IF i > Len(cur) THEN [bases |-> cur, existing |-> existing_bases]
    ELSE IF cur[i] \in removed_bases
    THEN remove_walk(RemoveFirst(cur, cur[i]), removed_bases, i + 1, existing_bases)
    ELSE remove_walk(cur, removed_bases, i + 1, existing_bases \cup {cur[i]})

RECURSIVE splice_walk(_, _, _, _)
\* the loop over added_bases; index[ref] of a name not in the list is a KeyError
splice_walk(cur, added_bases, g, existing_bases) ==
    IF g > Len(added_bases) THEN [ok |-> TRUE, err |-> "", bases |-> cur]
    ELSE LET grp == added_bases[g]
             fresh == SelectSeq(grp.bases, LAMBDA b : b \notin existing_bases)
         IN  IF grp.pos \in {"LAST", "NONE"}
             THEN splice_walk(Splice(cur, Len(cur), fresh), added_bases, g + 1,
                              existing_bases)
             ELSE IF grp.pos = "FIRST"
             THEN splice_walk(Splice(cur, 0, fresh), added_bases, g + 1,
                              existing_bases)
             ELSE IF grp.ref \notin Range(cur)
             THEN [ok |-> FALSE, err |-> "KeyError", bases |-> cur]
             ELSE splice_walk(Splice(cur, IndexOf(cur, grp.ref), fresh),
                              added_bases, g + 1, existing_bases)

\* the reconstruction with the fallback taken for every class
rebase_bases_AlwaysFallback(cur, default, removed_bases, added_bases) ==
    LET start == IF default # NoRef /\ cur = <<default>> THEN <<>> ELSE cur
        kept == remove_walk(start, removed_bases, 1, {})
        spliced == splice_walk(kept.bases, added_bases, 1, kept.existing)
    IN  IF ~spliced.ok THEN spliced
        ELSE IF spliced.bases = <<>>
        THEN [ok |-> TRUE, err |-> "", bases |-> <<DefaultBaseName>>]
        ELSE spliced

\* lines 230-269: cur is the entity's base list, default the class default
\* base name or NoRef when the class has none
rebase_bases(cur, default, removed_bases, added_bases) ==
    LET start == IF default # NoRef /\ cur = <<default>> THEN <<>> ELSE cur
        kept == remove_walk(start, removed_bases, 1, {})
        spliced == splice_walk(kept.bases, added_bases, 1, kept.existing)
    IN  IF ~spliced.ok THEN spliced
        ELSE IF spliced.bases = <<>> /\ default # NoRef
        THEN [ok |-> TRUE, err |-> "", bases |-> <<default>>]
        ELSE spliced

-----------------------------------------------------------------------------
(* Linearization: _merge_mro and compute_mro *)

Ok(mro) == [ok |-> TRUE, err |-> "", mro |-> mro]

Err(e) == [ok |-> FALSE, err |-> e, mro |-> <<>>]

\* id(candidate) in {id(c) for c in m[1:]}
InTail(candidate, m) == \E k \in 2..Len(m) : m[k] = candidate

\* FreeHeads without the test of the tails: every head is taken as free
FreeHeadsNoTailTest(nonempty) == 1..Len(nonempty)

\* FreeHeads testing the tail of the first candidate list only
FreeHeadsFirstTail(nonempty) ==
    {i \in 1..Len(nonempty) : ~InTail(nonempty[i][1], nonempty[1])}

\* the candidate lists whose head is in the tail of no non-empty list
FreeHeads(nonempty) ==
    {i \in 1..Len(nonempty) :
        ~\E k \in 1..Len(nonempty) : InTail(nonempty[i][1], nonempty[k])}

\* the state of the loop of _merge_mro: the candidate lists and the result
MergeState(status, err, mros, result) ==
    [status |-> status, err |-> err, mros |-> mros, result |-> result]

\* one turn of the loop that returns the order found so far where the
\* source raises
merge_step_GivesUp(mros, result) ==
    LET nonempty == SelectSeq(mros, LAMBDA m : m # <<>>)
        free == {i \in 1..Len(nonempty) :
                    \A k \in 1..Len(nonempty) : ~InTail(nonempty[i][1], nonempty[k])}
    IN  IF nonempty = <<>> \/ free = {}
        THEN MergeState("done", "", nonempty, result)
        ELSE LET first == CHOOSE i \in free : \A j \in free : i <= j
                 candidate == nonempty[first][1]
                 rest == [k \in 1..Len(nonempty) |->
                             IF nonempty[k][1] = candidate
                             THEN Tail(nonempty[k]) ELSE nonempty[k]]
             IN  MergeState("run", "", rest, Append(result, candidate))

\* one turn of the loop that takes the last list with a free head where the
\* source takes the first
merge_step_LastFree(mros, result) ==
    LET nonempty == SelectSeq(mros, LAMBDA m : m # <<>>)
        free == {i \in 1..Len(nonempty) :
                    \A k \in 1..Len(nonempty) : ~InTail(nonempty[i][1], nonempty[k])}
    IN  IF nonempty = <<>> THEN MergeState("done", "", nonempty, result)
        ELSE IF free = {} THEN MergeState("raise", "SchemaError", nonempty, result)
        ELSE LET last == CHOOSE i \in free : \A j \in free : i >= j
                 candidate == nonempty[last][1]
                 rest == [k \in 1..Len(nonempty) |->
                             IF nonempty[k][1] = candidate
                             THEN Tail(nonempty[k]) ELSE nonempty[k]]
             IN  MergeState("run", "", rest, Append(result, candidate))

\* one turn of `while True` in _merge_mro
merge_step(mros, result) ==
    LET nonempty == SelectSeq(mros, LAMBDA m : m # <<>>)
        free == FreeHeads(nonempty)
    IN  IF nonempty = <<>> THEN MergeState("done", "", nonempty, result)
        ELSE IF free = {} THEN MergeState("raise", "SchemaError", nonempty, result)
        ELSE LET first == CHOOSE i \in free : \A j \in free : i <= j
                 candidate == nonempty[first][1]
                 rest == [k \in 1..Len(nonempty) |->
                             IF nonempty[k][1] = candidate
                             THEN Tail(nonempty[k]) ELSE nonempty[k]]
             IN  MergeState("run", "", rest, Append(result, candidate))

RECURSIVE _merge_mro(_, _)
\* the loop of _merge_mro, run until it returns or raises
_merge_mro(mros, result) ==
    LET st == merge_step(mros, result)
    IN  IF st.status = "done" THEN Ok(st.result)
        ELSE IF st.status = "raise" THEN Err(st.err)
        ELSE _merge_mro(st.mros, st.result)

RECURSIVE compute_mro(_, _, _)
RECURSIVE base_mros(_, _, _, _, _)
\* `for base in bases: mros.append(base.compute_mro(schema))`: the first base
\* whose linearization raises ends the loop with that error
base_mros(b, obj, i, mros, depth) ==
    IF i > Len(b[obj]) THEN [ok |-> TRUE, err |-> "", mros |-> mros]
    ELSE LET r == compute_mro(b, b[obj][i], depth + 1)
         IN  IF ~r.ok THEN [ok |-> FALSE, err |-> r.err, mros |-> <<>>]
             ELSE base_mros(b, obj, i + 1, Append(mros, r.mro), depth)

\* b is the `bases` field of every entity; depth is the depth of the call
compute_mro(b, obj, depth) ==
    IF depth > RecursionLimit THEN Err("RecursionError")
    ELSE LET collected == base_mros(b, obj, 1, <<<<obj>>>>, depth)
         IN  IF ~collected.ok THEN Err(collected.err)
             ELSE _merge_mro(collected.mros, <<>>)

\* compute_mro(schema, obj)[1:]
MroTail(r) == Tail(r.mro)

-----------------------------------------------------------------------------
(* The schema: entities, reference collections *)

Entities == {DefaultBaseName, "A", "B", "C"}

\* entities a command may create
UserEntities == Entities \ {DefaultBaseName}

\* keys of the one reference collection modelled (e.g. `pointers`)
Keys == {"m"}

\* a member is named by its owner and its key (the specialized name); an
\* entry of a collection under key k holds the owner of the member
NoMember == "-"

None == [set |-> FALSE, val |-> <<>>]

Some(v) == [set |-> TRUE, val |-> v]

EmptyColl == [k \in Keys |-> NoMember]

\* a referenced object: how it came to be (declared, derived, copy), its
\* `inherited` and `declared_inherited` fields, the bases it was merged onto
\* and its back-reference to the referrer
Member(kind, inherited, declared_inherited, merge_bases, backref) ==
    [kind |-> kind, inherited |-> inherited,
     declared_inherited |-> declared_inherited,
     merge_bases |-> merge_bases, backref |-> backref]

NoAttrs == Member("none", FALSE, FALSE, <<>>, NoRef)

\* the RefDict descriptor of the collection: whether a local member that
\* collides with an inherited one must be declared inherited, and whether the
\* member class (ref_cls) rules out sharing a base's member
RefDict(requires_explicit_inherit, copies) ==
    [requires_explicit_inherit |-> requires_explicit_inherit,
     ref_cls |-> [copies |-> copies]]

\* ObjectType.get_default_base_name / InheritingObject.get_default_base_name
get_default_base_name(withDefault) == IF withDefault THEN DefaultBaseName ELSE NoRef

\* ObjectType.get_root_classes / InheritingObject.get_root_classes
get_root_classes(withDefault) == IF withDefault THEN {"BaseObject", DefaultBaseName} ELSE {}

\* schema.get_children: the entities that name e in `bases`
children(b, ex, e) == {c \in ex : e \in Range(b[c])}

RECURSIVE reach(_, _, _, _)
\* entities reached from the set S by following `bases` backwards, n rounds
reach(b, ex, S, n) ==
    IF n = 0 THEN S
    ELSE reach(b, ex, S \cup UNION {children(b, ex, x) : x \in S}, n - 1)

\* schema.get_descendants: the transitive descendants of e
descendants(b, ex, e) ==
    reach(b, ex, children(b, ex, e), Cardinality(Entities))

-----------------------------------------------------------------------------
(* InheritingObject.merge / acquire_ancestor_inheritance *)

\* merge with the entry of a base replacing the entry `self` has
merge_Overwrites(f, self, objs) ==
    [k \in Keys |->
        LET have == {i \in 1..Len(objs) :
                        /\ f[objs[i]][k] # NoMember
                        /\ k \notin non_inheritable[objs[i]]}
        IN  IF have = {} THEN f[self][k]
            ELSE f[objs[CHOOSE i \in have : \A j \in have : i <= j]][k]]

\* the collection of `self` after merging the collections of objs in order:
\* a key absent from it takes the entry of the first obj that has one outside
\* its non-inheritable collection (lines 412-420)
merge(f, self, objs) ==
    [k \in Keys |->
        IF f[self][k] # NoMember THEN f[self][k]
        ELSE LET have == {i \in 1..Len(objs) :
                             /\ f[objs[i]][k] # NoMember
                             /\ k \notin non_inheritable[objs[i]]}
             IN  IF have = {} THEN NoMember
                 ELSE f[objs[CHOOSE i \in have : \A j \in have : i <= j]][k]]

acquire_ancestor_inheritance(f, b, self) ==
    [f EXCEPT ![self] = merge(f, self, b[self])]

-----------------------------------------------------------------------------
(* Commands on the hierarchy *)

OpRecord(kind, target, alters, result, added) ==
    [kind |-> kind, target |-> target, alters |-> alters, result |-> result,
     added |-> added]

\* _validate_base_refs with the declared list taken as it is
_validate_base_refs_AsDeclared(classname, declared, withDefault) == declared

\* CreateInheritingObject._validate_base_refs: an empty declared list becomes
\* the default base, unless the entity is a root class or the default itself
_validate_base_refs(classname, declared, withDefault) ==
    IF declared = <<>> /\ classname \notin get_root_classes(withDefault)
       /\ get_default_base_name(withDefault) # NoRef
       /\ classname # get_default_base_name(withDefault)
    THEN <<get_default_base_name(withDefault)>>
    ELSE declared

\* CreateInheritingObject: _create_begin, then _create_finalize
Create(e, declared) ==
    /\ e \notin exists
    /\ LET own == _validate_base_refs(e, declared, hasDefault)
           b2 == [bases EXCEPT ![e] = own]
           r == compute_mro(b2, e, 1)
       IN  IF own # <<>> /\ ~r.ok
           THEN /\ op' = OpRecord("create", e, {}, r.err, {})
                /\ UNCHANGED <<hierVars, refVars>>
           ELSE /\ exists' = exists \cup {e}
                /\ bases' = b2
                /\ ancestors' = [ancestors EXCEPT ![e] =
                                    IF own # <<>> THEN Some(MroTail(r)) ELSE None]
                /\ full' = acquire_ancestor_inheritance(full, b2, e)
                /\ op' = OpRecord("create", e, {}, "ok", {})
                /\ UNCHANGED <<local, attrs>>
    /\ UNCHANGED <<classVars, lin, nrebase, deltaVars>>

\* the cascade run over every other entity of the schema
cascade_WholeSchema(b, ex, anc, e, alters) ==
    LET ds == ex \ {e}
        mro == [d \in ds |-> compute_mro(b, d, 1)]
    IN  IF \E d \in ds : ~mro[d].ok
        THEN [ok |-> FALSE, anc |-> anc, added |-> {}]
        ELSE [ok |-> TRUE,
              anc |-> [x \in Entities |->
                          IF x \in ds THEN Some(MroTail(mro[x])) ELSE anc[x]],
              added |-> {<<d, MroTail(mro[d])>> : d \in ds}]

\* the cascade of RebaseInheritingObject.apply (lines 281-295): skipped as a
\* whole when the command carries any alter sub-command
cascade(b, ex, anc, e, alters) ==
    LET ds == descendants(b, ex, e)
        mro == [d \in ds |-> compute_mro(b, d, 1)]
    IN  IF ds # {} /\ alters = {}
        THEN IF \E d \in ds : ~mro[d].ok
             THEN [ok |-> FALSE, anc |-> anc, added |-> {}]
             ELSE [ok |-> TRUE,
                   anc |-> [x \in Entities |->
                               IF x \in ds THEN Some(MroTail(mro[x])) ELSE anc[x]],
                   added |-> {<<d, MroTail(mro[d])>> : d \in ds}]
        ELSE [ok |-> TRUE, anc |-> anc, added |-> {}]

\* the explicit alter sub-commands a rebase command on e carries: at most one,
\* for a descendant of e
AlterInputs(e) == {{}} \cup {{d} : d \in descendants(bases, exists, e)}

\* Object.get_classref_origin: the first entity of obj's linearization that
\* locally defines key; NoRef stands for the KeyError of a failed lookup
get_classref_origin(l, b, obj, key) ==
    LET r == compute_mro(b, obj, 1)
        owners == IF r.ok THEN SelectSeq(r.mro, LAMBDA c : l[c][key] # NoMember)
                  ELSE <<>>
    IN  IF owners = <<>> THEN NoRef ELSE owners[1]

\* the pruning loop of RebaseInheritingObject.apply, lines 206-222, for one
\* obj: the value its local name `coll` is bound to when the loop ends.  The
\* loop runs on the schema passed in, before the base list is touched.
prune_refs(f, l, b, obj) ==
    [key \in Keys |->
        IF /\ f[obj][key] # NoMember
           /\ l[obj][key] = NoMember
           /\ get_classref_origin(l, b, obj, key) = NoRef
        THEN NoMember
        ELSE f[obj][key]]

\* RebaseInheritingObject.apply.  alters: the descendants for which the
\* command carries an explicit alter sub-command (one that sets no
\* `ancestors`).  The pruning loop of lines 206-222 rebinds only its local
\* `coll` and `schema` names before any field is written, and stores no
\* collection.
Rebase(e, removed_bases, added_bases) ==
    /\ nrebase < MaxRebases
    /\ e \in exists
    /\ nrebase' = nrebase + 1
    /\ LET rb == rebase_bases(bases[e], get_default_base_name(hasDefault),
                              removed_bases, added_bases)
           b2 == [bases EXCEPT ![e] = rb.bases]
           r == compute_mro(b2, e, 1)
           anc2 == [ancestors EXCEPT ![e] = Some(MroTail(r))]
       IN  \E alters \in AlterInputs(e) :
             IF ~rb.ok
             THEN /\ op' = OpRecord("rebase", e, alters, rb.err, {})
                  /\ UNCHANGED hierVars
             ELSE /\ Len(rb.bases) <= MaxBases
                  /\ IF ~r.ok
                     THEN /\ op' = OpRecord("rebase", e, alters, r.err, {})
                          /\ UNCHANGED hierVars
                     ELSE LET c == cascade(b2, exists, anc2, e, alters)
                          IN  IF ~c.ok
                              THEN /\ op' = OpRecord("rebase", e, alters,
                                                     "SchemaError", {})
                                   /\ UNCHANGED hierVars
                              ELSE /\ bases' = b2
                                   /\ ancestors' = c.anc
                                   /\ op' = OpRecord("rebase", e, alters, "ok",
                                                     c.added)
                                   /\ UNCHANGED exists
    \* lines 206-222: each pruned collection is bound to the local name
    \* `coll`; set_field_value is never called with it
    /\ LET coll == [obj \in {e} \cup descendants(bases, exists, e) |->
                      prune_refs(full, local, bases, obj)]
       IN  UNCHANGED refVars
    /\ UNCHANGED <<classVars, lin, deltaVars>>

\* the added_bases a rebase command on e is given: at most one group of one
\* base, anchored LAST or BEFORE one of e's bases
AddedInputs(e) ==
    {<<>>} \cup
    {<<Group(<<x>>, "LAST", NoRef)>> : x \in exists} \cup
    {<<Group(<<x>>, "BEFORE", ref)>> : x \in exists, ref \in Range(bases[e])}

\* the removed_bases a rebase command on e is given: at most one of e's bases
RemovedInputs(e) == {{}} \cup {{x} : x \in Range(bases[e])}

\* the base list a create command declares: none, one or two existing entities
DeclaredInputs ==
    {s \in {<<>>} \cup {<<x>> : x \in exists}
                  \cup {<<x, y>> : x \in exists, y \in exists} : IsUnique(s)}

\* the entity a create command names: names are labels, so entities are
\* created in the order A, B, C
NextToCreate ==
    IF "A" \notin exists THEN {"A"}
    ELSE IF "B" \notin exists THEN {"B"}
    ELSE IF "C" \notin exists THEN {"C"} ELSE {}

NoLin == MergeState("idle", "", <<>>, <<>>)

NoOp == OpRecord("none", NoRef, {}, "ok", {})

IdleDelta ==
    /\ dOld = <<>> /\ dNew = <<>> /\ dpc = "idle"
    /\ dScript = [removed |-> {}, added |-> <<>>]
    /\ dResult = [ok |-> TRUE, err |-> "", bases |-> <<>>]

\* the schema holds one entity without bases; withDefault tells the class
InitSchema(withDefault) ==
    /\ hasDefault = withDefault
    /\ refdict = RefDict(FALSE, FALSE)
    /\ context = "none"
    /\ exists = {DefaultBaseName}
    /\ bases = [e \in Entities |-> <<>>]
    /\ ancestors = [e \in Entities |-> None]
    /\ full = [e \in Entities |-> EmptyColl]
    /\ local = [e \in Entities |-> EmptyColl]
    /\ attrs = [e \in Entities |-> [k \in Keys |-> NoAttrs]]
    /\ non_inheritable = [e \in Entities |-> {}]
    /\ op = NoOp
    /\ lin = NoLin
    /\ nrebase = 0
    /\ IdleDelta

\* a class without default base (InheritingObject.get_default_base_name)
Init == InitSchema(FALSE)

Next ==
    \/ \E e \in NextToCreate, declared \in DeclaredInputs :
          Create(e, declared)
    \/ \E e \in UserEntities \cap exists :
          \E removed_bases \in RemovedInputs(e), added_bases \in AddedInputs(e) :
             Rebase(e, removed_bases, added_bases)

Spec == Init /\ [][Next]_vars

\* a class with a default base (ObjectType): the default base is in the
\* schema from the start
InitDefault == InitSchema(TRUE)

SpecDefault == InitDefault /\ [][Next]_vars

-----------------------------------------------------------------------------
(* The delta round trip: delta_bases(old, new), then the reconstruction of *)
(* RebaseInheritingObject.apply on an entity whose bases are old           *)

\* base lists an entity of the class can have: unique names, and at least one
\* base when the class has a default base
BaseLists(withDefault) ==
    {s \in UniqueSeqs(BaseNames, MaxLen) : withDefault => s # <<>>}

InitDelta ==
    /\ hasDefault \in BOOLEAN
    /\ refdict = RefDict(FALSE, FALSE)
    /\ context = "none"
    /\ exists = {}
    /\ bases = [e \in Entities |-> <<>>]
    /\ ancestors = [e \in Entities |-> None]
    /\ full = [e \in Entities |-> EmptyColl]
    /\ local = [e \in Entities |-> EmptyColl]
    /\ attrs = [e \in Entities |-> [k \in Keys |-> NoAttrs]]
    /\ non_inheritable = [e \in Entities |-> {}]
    /\ op = NoOp
    /\ lin = NoLin
    /\ nrebase = 0
    /\ dOld \in BaseLists(hasDefault)
    /\ dNew \in BaseLists(hasDefault)
    /\ dScript = [removed |-> {}, added |-> <<>>]
    /\ dResult = [ok |-> TRUE, err |-> "", bases |-> <<>>]
    /\ dpc = "start"

\* InheritingObject.delta, lines 384-385
DeltaBases ==
    /\ dpc = "start"
    /\ dScript' = delta_bases(dOld, dNew)
    /\ dpc' = "script"
    /\ UNCHANGED <<hierVars, refVars, classVars, op, lin, nrebase, dOld, dNew, dResult>>

\* RebaseInheritingObject.apply, lines 230-271, given the script
ApplyScript ==
    /\ dpc = "script"
    /\ dResult' = rebase_bases(dOld, get_default_base_name(hasDefault),
                               dScript.removed, dScript.added)
    /\ dpc' = "applied"
    /\ UNCHANGED <<hierVars, refVars, classVars, op, lin, nrebase, dOld, dNew, dScript>>

NextDelta == DeltaBases \/ ApplyScript

SpecDelta == InitDelta /\ [][NextDelta]_vars

-----------------------------------------------------------------------------
(* InheritingObject.delta: the rebase sub-command of a comparison *)

\* a rebase command as delta constructs it
RebaseCmd(removed_bases, added_bases, new_base) ==
    [removed_bases |-> removed_bases, added_bases |-> added_bases,
     new_base |-> new_base]

\* delta with the base names compared as sets
delta_IgnoresOrder(old, new, old_base_names, new_base_names, rebase) ==
    IF old /\ new /\ Range(old_base_names) # Range(new_base_names) /\ rebase
    THEN LET d == delta_bases(old_base_names, new_base_names)
         IN  <<RebaseCmd(d.removed, d.added, new_base_names)>>
    ELSE <<>>

\* InheritingObject.delta, lines 376-392: the sub-commands it adds to the
\* delta of the parent class.  old, new: whether the object is given;
\* rebase: whether a rebase command class is registered for type(new)
delta(old, new, old_base_names, new_base_names, rebase) ==
    IF old /\ new /\ old_base_names # new_base_names /\ rebase
    THEN LET d == delta_bases(old_base_names, new_base_names)
         IN  <<RebaseCmd(d.removed, d.added, new_base_names)>>
    ELSE <<>>

\* a comparison of an old and a new version of an entity
DeltaCmd(old, new, rebase) ==
    /\ dpc = "start"
    /\ LET cmds == delta(old, new, dOld, dNew, rebase)
       IN  /\ op' = OpRecord("delta", NoRef, {}, "ok", Range(cmds))
           /\ nrebase' = Len(cmds)
    /\ dpc' = "compared"
    /\ UNCHANGED <<hierVars, refVars, classVars, lin, dOld, dNew, dScript, dResult>>

NextDeltaCmd == \E old \in BOOLEAN, new \in BOOLEAN, rebase \in BOOLEAN :
                   DeltaCmd(old, new, rebase)

SpecDeltaCmd == InitDelta /\ [][NextDeltaCmd]_vars

-----------------------------------------------------------------------------
(* Linearization of one entity: compute_mro(schema, obj), the loop of      *)
(* _merge_mro taken one turn at a time                                     *)

MroEntities == Entities \cup {"D"}

\* base graphs a schema can hold: every entity is based on entities created
\* before it
Hierarchies ==
    {[e \in MroEntities |->
         CASE e = "A" -> g[1] [] e = "B" -> g[2] [] e = "C" -> g[3]
           [] e = "D" -> g[4] [] OTHER -> <<>>] :
     g \in UniqueSeqs({DefaultBaseName}, MaxBases)
           \X UniqueSeqs({DefaultBaseName, "A"}, MaxBases)
           \X UniqueSeqs({DefaultBaseName, "A", "B"}, MaxBases)
           \X UniqueSeqs({DefaultBaseName, "A", "B", "C"}, MaxBases)}

\* base graphs a rebase hands to compute_mro before it has linearized them:
\* any base lists over three entities, each possibly naming itself
TentativeGraphs ==
    {[e \in MroEntities |->
         CASE e = "A" -> g[1] [] e = "B" -> g[2] [] e = "C" -> g[3]
           [] OTHER -> <<>>] :
     g \in UniqueSeqs({"A", "B", "C"}, MaxBases)
           \X UniqueSeqs({"A", "B", "C"}, MaxBases)
           \X UniqueSeqs({"A", "B", "C"}, MaxBases)}

RECURSIVE above(_, _, _)
\* the entities reached from the set S by following `bases`, n rounds
above(b, S, n) ==
    IF n = 0 THEN S
    ELSE above(b, S \cup UNION {Range(b[x]) : x \in S}, n - 1)

\* the entities reached from e by one or more `bases` steps
AncestorsOf(b, e) == above(b, Range(b[e]), Cardinality(MroEntities))

\* g holds the hierarchy of e and nothing else
Trimmed(g, e) ==
    \A x \in MroEntities : x \notin AncestorsOf(g, e) \cup {e} => g[x] = <<>>

InitMro ==
    /\ hasDefault = FALSE
    /\ refdict = RefDict(FALSE, FALSE)
    /\ context = "none"
    /\ exists = MroEntities
    /\ bases \in Hierarchies \cup TentativeGraphs
    /\ ancestors = [e \in MroEntities |-> None]
    /\ full = [e \in MroEntities |-> EmptyColl]
    /\ local = [e \in MroEntities |-> EmptyColl]
    /\ attrs = [e \in MroEntities |-> [k \in Keys |-> NoAttrs]]
    /\ non_inheritable = [e \in MroEntities |-> {}]
    /\ \E e \in MroEntities :
          /\ Trimmed(bases, e)
          /\ op = OpRecord("compute_mro", e, {}, "", {})
    /\ lin = NoLin
    /\ nrebase = 0
    /\ IdleDelta

\* compute_mro, lines 330-334: the candidate lists
StartMro ==
    /\ op.kind = "compute_mro"
    /\ lin.status = "idle"
    /\ LET collected == base_mros(bases, op.target, 1, <<<<op.target>>>>, 1)
       IN  lin' = IF collected.ok
                  THEN MergeState("run", "", collected.mros, <<>>)
                  ELSE MergeState("raise", collected.err, <<>>, <<>>)
    /\ UNCHANGED <<hierVars, refVars, classVars, op, nrebase, deltaVars>>

\* _merge_mro: one turn of the loop
MergeStep ==
    /\ lin.status = "run"
    /\ lin' = merge_step(lin.mros, lin.result)
    /\ UNCHANGED <<hierVars, refVars, classVars, op, nrebase, deltaVars>>

NextMro == StartMro \/ MergeStep

SpecMro == InitMro /\ [][NextMro]_vars

-----------------------------------------------------------------------------
(* Referenced members: ReferencedObjectCommand._create_innards and          *)
(* _delete_innards, InheritingObject.del_classref, merge_classref_dict,     *)
(* finalize and update_descendants                                          *)

\* Object.add_classref: the member enters the full and the local collection
add_classref(f, l, self, key, member) ==
    [full |-> [f EXCEPT ![self][key] = member],
     local |-> [l EXCEPT ![self][key] = member]]

\* Object.del_classref: the key leaves the full and the local collection
base_del_classref(f, l, self, key) ==
    [full |-> [f EXCEPT ![self][key] = NoMember],
     local |-> [l EXCEPT ![self][key] = NoMember]]

\* the propagation of _create_innards with the loop over descendants left out
update_in_nobody(f, l, ds, key, member) == f

\* the loop over descendants of _create_innards (lines 117-125): the member
\* replaces the entry of every descendant that has no local member for key
update_in_descendants(f, l, ds, key, member) ==
    [e \in DOMAIN f |->
        IF e \in ds /\ l[e][key] = NoMember
        THEN [f[e] EXCEPT ![key] = member] ELSE f[e]]

\* the loop over descendants of del_classref (lines 731-739) and of
\* _delete_innards (lines 141-149): the key leaves the full collection of
\* every descendant that has no local member for it
delete_in_descendants(f, l, ds, key) ==
    [e \in DOMAIN f |->
        IF e \in ds /\ l[e][key] = NoMember
        THEN [f[e] EXCEPT ![key] = NoMember] ELSE f[e]]

\* ReferencedObjectCommand._create_innards for the member `member` of the
\* referrer, created by the command just before
_create_innards(f, l, at, b, ex, referrer, key, member) ==
    LET at2 == [at EXCEPT ![member][key].backref = referrer]
        added == add_classref(f, l, referrer, key, member)
    IN  [full |-> update_in_descendants(added.full, added.local,
                                        descendants(b, ex, referrer), key, member),
         local |-> added.local,
         attrs |-> at2]

RECURSIVE first_inherited(_, _, _, _)
\* del_classref, lines 724-728: the entry of the first base that has the key
first_inherited(f, bs, key, i) ==
    IF i > Len(bs) THEN NoMember
    ELSE IF f[bs[i]][key] # NoMember THEN f[bs[i]][key]
    ELSE first_inherited(f, bs, key, i + 1)

\* del_classref with the fallback entry of the owner left out
del_classref_NoFallback(f, l, b, ex, self, key) ==
    LET gone == base_del_classref(f, l, self, key)
    IN  [ok |-> TRUE, err |-> "", full |-> gone.full, local |-> gone.local]

\* InheritingObject.del_classref.  With an empty base list the loop of line
\* 724 never binds `inherited`, and line 730 reads an unbound local.
del_classref(f, l, b, ex, self, key) ==
    IF b[self] = <<>>
    THEN [ok |-> FALSE, err |-> "UnboundLocalError", full |-> f, local |-> l]
    ELSE LET inherited == first_inherited(f, b[self], key, 1)
             f2 == IF inherited # NoMember
                   THEN delete_in_descendants(f, l, descendants(b, ex, self), key)
                   ELSE f
             gone == base_del_classref(f2, l, self, key)
         IN  [ok |-> TRUE, err |-> "",
              full |-> IF inherited # NoMember
                       THEN [gone.full EXCEPT ![self][key] = inherited]
                       ELSE gone.full,
              local |-> gone.local]

\* ReferencedObjectCommand._delete_innards
_delete_innards(f, l, b, ex, referrer, key) ==
    LET d == del_classref(f, l, b, ex, referrer, key)
    IN  IF ~d.ok THEN d
        ELSE [d EXCEPT !.full = delete_in_descendants(
                                    d.full, d.local, descendants(b, ex, referrer), key)]

\* the delta context of a call: none, declarative or not declarative
Dctx == {"none", "declarative", "ddl"}

\* the two SchemaDefinitionError of merge_classref_dict (lines 545, 555)
MustDeclareInherited == "SchemaDefinitionError: must be declared inherited"

CannotDeclareInherited == "SchemaDefinitionError: cannot be declared inherited"

DefinitionErrors == {MustDeclareInherited, CannotDeclareInherited}

\* finalized: the calls local.finalize(schema, bases=inherited) made, as
\* pairs of the local member and the bases handed to it
MergeResult(ok, err, f, l, at, finalized) ==
    [ok |-> ok, err |-> err, full |-> f, local |-> l, attrs |-> at,
     finalized |-> finalized]

\* the candidates of lines 488-495 with the loop left at the first base that
\* has an entry for key
exposed_FirstOnly(f, bs, key, i) ==
    LET have == {j \in i..Len(bs) : f[bs[j]][key] # NoMember}
    IN  IF have = {} THEN <<>>
        ELSE <<f[bs[CHOOSE j \in have : \A n \in have : j <= n]][key]>>

RECURSIVE exposed(_, _, _, _)
\* merge_classref_dict, lines 488-495: the entries the bases have for key
exposed(f, bs, key, i) ==
    IF i > Len(bs) THEN <<>>
    ELSE IF f[bs[i]][key] # NoMember
         THEN <<f[bs[i]][key]>> \o exposed(f, bs, key, i + 1)
         ELSE exposed(f, bs, key, i + 1)

\* the candidates of lines 488-495 taken as they are, one per base
ancestry_PerBase(at, key, inherited, i, acc) == inherited

RECURSIVE ancestry(_, _, _, _, _)
\* lines 497-500: a dict keyed by the back-reference of each entry; an entry
\* with an owner already seen replaces the earlier entry in its place
ancestry(at, key, inherited, i, acc) ==
    IF i > Len(inherited) THEN acc
    ELSE LET pref == inherited[i]
             same == {j \in 1..Len(acc) :
                         at[acc[j]][key].backref = at[pref][key].backref}
         IN  ancestry(at, key, inherited, i + 1,
                      IF same = {} THEN Append(acc, pref)
                      ELSE [j \in 1..Len(acc) |->
                               IF j \in same THEN pref ELSE acc[j]])

\* the member class's derive_from_root(source=self, merge_bases, attrs =
\* {inherited: True}): a new member of this entity merged from the bases
derive_from_root(at, self, key, merge_bases) ==
    [merged |-> self,
     attrs |-> [at EXCEPT ![self][key] =
                   Member("derived", TRUE, FALSE, merge_bases, self)]]

\* the member class's inherit_pure(item, source=self): the item itself and an
\* unchanged schema, or, when the class rules sharing out, a copy for self
inherit_pure(at, item, self, key, copies) ==
    IF copies
    THEN [merged |-> self, pure |-> FALSE,
          attrs |-> [at EXCEPT ![self][key] =
                        Member("copy", TRUE, FALSE, <<item>>, self)]]
    ELSE [merged |-> item, pure |-> TRUE, attrs |-> at]

\* the test of lines 538-541 with the `not` before get_declared_inherited
\* left out
explicit_inherit_missing_Inverted(has_local, inherited, pure_inheritance, requires_explicit_inherit, declared_inherited, dctx) ==
    /\ has_local /\ inherited # <<>> /\ ~pure_inheritance
    /\ requires_explicit_inherit /\ declared_inherited
    /\ dctx # "none" /\ dctx = "declarative"

\* the test of lines 538-541
explicit_inherit_missing(has_local, inherited, pure_inheritance, requires_explicit_inherit, declared_inherited, dctx) ==
    /\ has_local /\ inherited # <<>> /\ ~pure_inheritance
    /\ requires_explicit_inherit /\ ~declared_inherited
    /\ dctx # "none" /\ dctx = "declarative"

\* merge_classref_dict, one turn of the loop over the keys (lines 485-577)
merge_classref_key(st, self, bs, key, requires_explicit_inherit, dctx, copies) ==
    LET loc == st.local[self][key]
        inherited == ancestry(st.attrs, key, exposed(st.full, bs, key, 1), 1, <<>>)
        declared_inherited ==
            loc # NoMember /\ st.attrs[loc][key].declared_inherited
        branch ==
            CASE loc # NoMember /\ inherited # <<>> ->
                   [merged |-> loc, pure |-> FALSE, attrs |-> st.attrs]
              [] loc = NoMember /\ Len(inherited) > 1 ->
                   LET d == derive_from_root(st.attrs, self, key, inherited)
                   IN  [merged |-> d.merged, pure |-> FALSE, attrs |-> d.attrs]
              [] loc = NoMember /\ Len(inherited) = 1 ->
                   inherit_pure(st.attrs, inherited[1], self, key, copies)
              [] OTHER ->
                   [merged |-> loc, pure |-> FALSE, attrs |-> st.attrs]
        finalized == IF loc # NoMember /\ inherited # <<>>
                     THEN st.finalized \cup {<<loc, inherited>>}
                     ELSE st.finalized
    IN  IF inherited = <<>> /\ loc = NoMember THEN st
        ELSE IF explicit_inherit_missing(loc # NoMember, inherited, branch.pure,
                                         requires_explicit_inherit,
                                         declared_inherited, dctx)
        THEN MergeResult(FALSE, MustDeclareInherited, st.full, st.local, st.attrs, {})
        ELSE IF inherited = <<>> /\ declared_inherited
        THEN MergeResult(FALSE, CannotDeclareInherited, st.full, st.local, st.attrs, {})
        ELSE IF inherited = <<>>
        THEN MergeResult(TRUE, "", st.full, st.local, branch.attrs, finalized)
        ELSE MergeResult(TRUE, "",
                 [st.full EXCEPT ![self][key] = branch.merged],
                 IF branch.pure THEN st.local
                 ELSE [st.local EXCEPT ![self][key] = branch.merged],
                 branch.attrs, finalized)

RECURSIVE merge_keys(_, _, _, _, _, _, _)
merge_keys(st, self, bs, keys, requires_explicit_inherit, dctx, copies) ==
    IF keys = {} \/ ~st.ok THEN st
    ELSE LET key == CHOOSE k \in keys : TRUE
         IN  merge_keys(merge_classref_key(st, self, bs, key,
                                           requires_explicit_inherit, dctx, copies),
                        self, bs, keys \ {key},
                        requires_explicit_inherit, dctx, copies)

\* merge_classref_dict with the final update writing the local collection
\* only
merge_classref_dict_LocalOnly(f, l, at, self, bs, requires_explicit_inherit, dctx, copies) ==
    LET st == merge_keys(MergeResult(TRUE, "", f, l, at, {}), self, bs,
                         {k \in Keys : f[self][k] # NoMember},
                         requires_explicit_inherit, dctx, copies)
    IN  IF st.ok THEN [st EXCEPT !.full = f]
        ELSE MergeResult(FALSE, st.err, f, l, at, {})

\* merge_classref_dict with the final update writing the full collection
\* only
merge_classref_dict_FullOnly(f, l, at, self, bs, requires_explicit_inherit, dctx, copies) ==
    LET st == merge_keys(MergeResult(TRUE, "", f, l, at, {}), self, bs,
                         {k \in Keys : f[self][k] # NoMember},
                         requires_explicit_inherit, dctx, copies)
    IN  IF st.ok THEN [st EXCEPT !.local = l]
        ELSE MergeResult(FALSE, st.err, f, l, at, {})

\* merge_classref_dict with a raise taken as the end of the loop
merge_classref_dict_Swallows(f, l, at, self, bs, requires_explicit_inherit, dctx, copies) ==
    LET st == merge_keys(MergeResult(TRUE, "", f, l, at, {}), self, bs,
                         {k \in Keys : f[self][k] # NoMember},
                         requires_explicit_inherit, dctx, copies)
    IN  IF st.ok THEN st
        ELSE MergeResult(TRUE, "", f, l, at, {})

\* InheritingObject.merge_classref_dict with classref_keys = None: the keys of
\* the full collection; a raise leaves the schema passed in as the only one
merge_classref_dict(f, l, at, self, bs, requires_explicit_inherit, dctx, copies) ==
    LET st == merge_keys(MergeResult(TRUE, "", f, l, at, {}), self, bs,
                         {k \in Keys : f[self][k] # NoMember},
                         requires_explicit_inherit, dctx, copies)
    IN  IF st.ok THEN st
        ELSE MergeResult(FALSE, st.err, f, l, at, {})

RECURSIVE update_descendants(_, _, _, _, _)
RECURSIVE update_children(_, _, _, _, _, _)
\* the loop of update_descendants over the children, taken in `order`
update_children(f, b, ex, self, order, i) ==
    IF i > Len(order) THEN f
    ELSE IF order[i] \in children(b, ex, self)
         THEN update_children(
                  update_descendants(acquire_ancestor_inheritance(f, b, order[i]),
                                     b, ex, order[i], order),
                  b, ex, self, order, i + 1)
         ELSE update_children(f, b, ex, self, order, i + 1)

\* InheritingObject.update_descendants; order: the order in which the schema
\* hands out the children
update_descendants(f, b, ex, self, order) ==
    update_children(f, b, ex, self, order, 1)

-----------------------------------------------------------------------------
(* Commands on referenced members, on a fixed hierarchy *)

RefOp(kind, target, key, result, finalized) ==
    [kind |-> kind, target |-> target, key |-> key, result |-> result,
     finalized |-> finalized]

\* the members the entities hold locally under key
Members(l, key) == {l[e][key] : e \in DOMAIN l} \ {NoMember}

\* a command on a referrer carries one command on a member; its innards have
\* run and the referrer's command has yet to finalize
InCommand == op.kind \in {"create_ref", "delete_ref"} /\ op.result = "ok"

\* a create command for a member of the referrer under key: the member is
\* created, then _create_innards runs
CreateRef(referrer, key, declared_inherited) ==
    /\ ~InCommand
    /\ referrer \in exists
    /\ Cardinality(Members(local, key)) < MaxMembers
    /\ local[referrer][key] = NoMember
    /\ LET created == [attrs EXCEPT ![referrer][key] =
                          Member("declared", FALSE, declared_inherited, <<>>, NoRef)]
           r == _create_innards(full, local, created, bases, exists,
                                referrer, key, referrer)
       IN  /\ full' = r.full
           /\ local' = r.local
           /\ attrs' = r.attrs
    /\ op' = RefOp("create_ref", referrer, key, "ok", {})
    /\ UNCHANGED <<hierVars, classVars, lin, nrebase, deltaVars>>

\* a delete command for the local member of the referrer under key:
\* _delete_innards runs, then the member leaves the schema
DeleteRef(referrer, key) ==
    /\ ~InCommand
    /\ referrer \in exists
    /\ local[referrer][key] # NoMember
    /\ LET r == _delete_innards(full, local, bases, exists, referrer, key)
       IN  IF r.ok
           THEN /\ full' = r.full
                /\ local' = r.local
                /\ attrs' = [attrs EXCEPT ![referrer][key] = NoAttrs]
                /\ op' = RefOp("delete_ref", referrer, key, "ok", {})
           ELSE /\ op' = RefOp("delete_ref", referrer, key, r.err, {})
                /\ UNCHANGED refVars
    /\ UNCHANGED <<hierVars, classVars, lin, nrebase, deltaVars>>

\* InheritingObject.finalize(schema, bases=None, dctx=context): ancestors
\* when missing, acquire_ancestor_inheritance, then merge_classref_dict for
\* the collection
Finalize(e) ==
    /\ ~InCommand
    /\ e \in exists
    /\ LET r == compute_mro(bases, e, 1)
           f2 == acquire_ancestor_inheritance(full, bases, e)
           m == merge_classref_dict(f2, local, attrs, e, bases[e],
                                    refdict.requires_explicit_inherit, context,
                                    refdict.ref_cls.copies)
           result == IF ancestors[e] = None /\ ~r.ok THEN r.err
                     ELSE IF ~m.ok THEN m.err ELSE "ok"
       IN  /\ \A k \in Keys : Cardinality(Members(m.local, k)) <= MaxMembers
           /\ op' = RefOp("finalize", e, NoRef, result,
                           IF result = "ok" THEN m.finalized ELSE {})
           /\ IF result # "ok"
              THEN UNCHANGED <<ancestors, refVars>>
              ELSE /\ ancestors' = IF ancestors[e] = None
                                   THEN [ancestors EXCEPT ![e] = Some(MroTail(r))]
                                   ELSE ancestors
                   /\ full' = m.full
                   /\ local' = m.local
                   /\ attrs' = m.attrs
    /\ UNCHANGED <<exists, bases, classVars, lin, nrebase, deltaVars>>

\* AlterInheritingObject._alter_finalize of the command on the referrer
AlterFinalize(e, order) ==
    /\ InCommand
    /\ e = op.target
    /\ full' = update_descendants(acquire_ancestor_inheritance(full, bases, e),
                                  bases, exists, e, order)
    /\ op' = RefOp("alter_finalize", NoRef, NoRef, "ok", {})
    /\ UNCHANGED <<hierVars, local, attrs, classVars, lin, nrebase, deltaVars>>

\* the orders in which the schema may hand out the children of an entity
ChildOrders == {s \in UniqueSeqs(UserEntities, Cardinality(UserEntities)) :
                   Len(s) = Cardinality(UserEntities)}

\* a base list over S of a class with a default base: never empty
NonEmptySeqs(S) == UniqueSeqs(S, MaxBases) \ {<<>>}

\* the hierarchies a schema of a class with a default base holds over the
\* four entities: every entity but the default base is based on entities
\* created before it, linearizes, and names no base together with an
\* ancestor of that base
RefHierarchies ==
    {h \in {[e \in Entities |->
               CASE e = "A" -> g[1] [] e = "B" -> g[2] [] e = "C" -> g[3]
                 [] OTHER -> <<>>] :
            g \in NonEmptySeqs({DefaultBaseName})
                  \X NonEmptySeqs({DefaultBaseName, "A"})
                  \X NonEmptySeqs({DefaultBaseName, "A", "B"})} :
        /\ \A e \in Entities : compute_mro(h, e, 1).ok
        /\ \A e \in Entities : \A x \in Range(h[e]), y \in Range(h[e]) :
               x \notin AncestorsOf(h, y)}

\* every entity has been created and finalized; no member exists yet
InitRef ==
    /\ hasDefault = TRUE
    /\ refdict \in {RefDict(x, y) : x \in BOOLEAN, y \in BOOLEAN}
    /\ context \in Dctx
    /\ exists = Entities
    /\ bases \in RefHierarchies
    /\ ancestors = [e \in Entities |-> Some(MroTail(compute_mro(bases, e, 1)))]
    /\ full = [e \in Entities |-> EmptyColl]
    /\ local = [e \in Entities |-> EmptyColl]
    /\ attrs = [e \in Entities |-> [k \in Keys |-> NoAttrs]]
    /\ non_inheritable = [e \in Entities |-> {}]
    /\ op = NoOp
    /\ lin = NoLin
    /\ nrebase = 0
    /\ IdleDelta

NextRef ==
    \/ \E e \in Entities, k \in Keys, declared_inherited \in BOOLEAN :
          CreateRef(e, k, declared_inherited)
    \/ \E e \in Entities, k \in Keys : DeleteRef(e, k)
    \/ \E e \in Entities : Finalize(e)
    \/ \E e \in Entities, order \in ChildOrders : AlterFinalize(e, order)

SpecRef == InitRef /\ [][NextRef]_vars

-----------------------------------------------------------------------------
(* Rebase of entities that hold members *)

\* a rebase command is applied between the commands on referrers
RebaseRef(e, removed_bases, added_bases) ==
    /\ ~InCommand
    /\ Rebase(e, removed_bases, added_bases)

\* the finalized hierarchies of InitRef, for a collection that neither
\* requires explicit inherit nor copies, outside a delta context
InitRebaseRef ==
    /\ InitRef
    /\ refdict = RefDict(FALSE, FALSE)
    /\ context = "none"

NextRebaseRef ==
    \/ \E e \in Entities, k \in Keys, declared_inherited \in BOOLEAN :
          CreateRef(e, k, declared_inherited)
    \/ \E e \in Entities, order \in ChildOrders : AlterFinalize(e, order)
    \/ \E e \in Entities : Finalize(e)
    \/ \E e \in UserEntities :
          \E removed_bases \in RemovedInputs(e), added_bases \in AddedInputs(e) :
             RebaseRef(e, removed_bases, added_bases)

SpecRebaseRef == InitRebaseRef /\ [][NextRebaseRef]_vars

-----------------------------------------------------------------------------
(* Creations and deletions of members alone, on a fixed hierarchy *)

NextMembers ==
    \/ \E e \in Entities, k \in Keys, declared_inherited \in BOOLEAN :
          CreateRef(e, k, declared_inherited)
    \/ \E e \in Entities, k \in Keys : DeleteRef(e, k)
    \/ \E e \in Entities, order \in ChildOrders : AlterFinalize(e, order)

SpecMembers == InitRebaseRef /\ [][NextMembers]_vars

-----------------------------------------------------------------------------
(* Derivation: InheritingObject.init_derived *)

\* what init_derived hands back: the error raised, or the derived object
\* with the fields it is created with
Derived(ok, err, name, own, anc) ==
    [ok |-> ok, err |-> err, name |-> name, bases |-> own, ancestors |-> anc]

\* Object.init_derived(as_copy=True): a copy of self under derived_name
base_init_derived(b, anc, self, derived_name) ==
    Derived(TRUE, "", derived_name, b[self], anc[self])

\* InheritingObject.init_derived with `name` given and no `bases` in attrs
init_derived(b, anc, self, derived_name, as_copy) ==
    IF as_copy THEN base_init_derived(b, anc, self, derived_name)
    ELSE IF self = derived_name
    THEN Derived(FALSE, "SchemaError", derived_name, <<>>, None)
    ELSE Derived(TRUE, "", derived_name, <<self>>, None)

\* the names a derivation of e may ask for: e's own or the next unused one
DerivedNames(e) == {e} \cup NextToCreate

\* a call of init_derived on e; the derived object enters the schema
Derive(e, derived_name, as_copy) ==
    /\ e \in exists
    /\ LET d == init_derived(bases, ancestors, e, derived_name, as_copy)
       IN  IF ~d.ok
           THEN /\ op' = OpRecord("derive", e, {}, d.err, {})
                /\ UNCHANGED hierVars
           ELSE /\ exists' = exists \cup {d.name}
                /\ bases' = [bases EXCEPT ![d.name] = d.bases]
                /\ ancestors' = [ancestors EXCEPT ![d.name] = d.ancestors]
                /\ op' = OpRecord("derive", e, {}, "ok", {d.name})
    /\ UNCHANGED <<refVars, classVars, lin, nrebase, deltaVars>>

NextDerive ==
    \/ \E e \in NextToCreate, declared \in DeclaredInputs :
          Create(e, declared)
    \/ \E e \in UserEntities \cap exists :
          \E derived_name \in DerivedNames(e), as_copy \in BOOLEAN :
             Derive(e, derived_name, as_copy)

SpecDerive == Init /\ [][NextDerive]_vars

-----------------------------------------------------------------------------
(* _alter_finalize taken call by call: acquire_ancestor_inheritance on the  *)
(* entity of the command, then on every descendant as update_descendants    *)
(* reaches it                                                               *)

\* pending: the entities update_descendants has yet to call
\* acquire_ancestor_inheritance on; added: the keys the last call added
AcqOp(target, key, added, pending) ==
    [kind |-> "acquire", target |-> target, key |-> key, result |-> "ok",
     added |-> added, pending |-> pending]

RECURSIVE acquire_calls(_, _, _, _)
RECURSIVE acquire_calls_from(_, _, _, _, _)
\* the calls made by the loop over the children of self, from the i-th on
acquire_calls_from(b, ex, self, order, i) ==
    IF i > Len(order) THEN <<>>
    ELSE IF order[i] \in children(b, ex, self)
         THEN <<order[i]>> \o acquire_calls(b, ex, order[i], order)
                          \o acquire_calls_from(b, ex, self, order, i + 1)
         ELSE acquire_calls_from(b, ex, self, order, i + 1)

\* update_descendants: the entities it calls acquire_ancestor_inheritance on,
\* in the order of the calls
acquire_calls(b, ex, self, order) == acquire_calls_from(b, ex, self, order, 1)

\* the keys a call on e adds to the full collection of e
added_keys(f, f2, e) == {k \in Keys : f[e][k] = NoMember /\ f2[e][k] # NoMember}

\* _alter_finalize, line 177: the call on the entity of the command
BeginAlterFinalize(e, order) ==
    /\ InCommand
    /\ e = op.target
    /\ LET f2 == acquire_ancestor_inheritance(full, bases, e)
       IN  /\ full' = f2
           /\ op' = AcqOp(e, op.key, added_keys(full, f2, e),
                          acquire_calls(bases, exists, e, order))
    /\ UNCHANGED <<hierVars, local, attrs, classVars, lin, nrebase, deltaVars>>

\* update_descendants, line 679: the next call on a descendant
AcquireNext ==
    /\ op.kind = "acquire"
    /\ op.pending # <<>>
    /\ LET child == Head(op.pending)
           f2 == acquire_ancestor_inheritance(full, bases, child)
       IN  /\ full' = f2
           /\ op' = AcqOp(child, op.key, added_keys(full, f2, child),
                          Tail(op.pending))
    /\ UNCHANGED <<hierVars, local, attrs, classVars, lin, nrebase, deltaVars>>

\* no _alter_finalize is under way
Settled == op.kind = "acquire" => op.pending = <<>>

\* the finalized hierarchies of InitRef with any non-inheritable collections
InitAcquire ==
    /\ hasDefault = TRUE
    /\ refdict = RefDict(FALSE, FALSE)
    /\ context = "none"
    /\ non_inheritable \in [Entities -> SUBSET Keys]
    /\ exists = Entities
    /\ bases \in RefHierarchies
    /\ ancestors = [e \in Entities |-> Some(MroTail(compute_mro(bases, e, 1)))]
    /\ full = [e \in Entities |-> EmptyColl]
    /\ local = [e \in Entities |-> EmptyColl]
    /\ attrs = [e \in Entities |-> [k \in Keys |-> NoAttrs]]
    /\ op = NoOp
    /\ lin = NoLin
    /\ nrebase = 0
    /\ IdleDelta

NextAcquire ==
    \/ \E e \in Entities, k \in Keys, declared_inherited \in BOOLEAN :
          Settled /\ CreateRef(e, k, declared_inherited)
    \/ \E e \in Entities, k \in Keys : Settled /\ DeleteRef(e, k)
    \/ \E e \in Entities, order \in ChildOrders : BeginAlterFinalize(e, order)
    \/ AcquireNext

SpecAcquire == InitAcquire /\ [][NextAcquire]_vars

-----------------------------------------------------------------------------
(* Claims *)

\* C1 (as stated): applying the script of delta_bases(old, new) to an entity
\* whose bases are old yields exactly new, in membership and in order.
C1_RoundTripRebase ==
    dpc = "applied" => dResult.ok /\ dResult.bases = dNew

\* the stored `ancestors` of e, an unset field read as the empty order
StoredAncestors(e) == ancestors[e].val

\* compute_mro(e)[1:] on the stored base graph
FreshAncestors(e) == MroTail(compute_mro(bases, e, 1))

\* C2 (as stated): after any sequence of creations and rebases, every entity's
\* stored `ancestors` is compute_mro(entity) without its first element.
C2_AncestorCache ==
    \A e \in exists :
        compute_mro(bases, e, 1).ok /\ StoredAncestors(e) = FreshAncestors(e)

\* C4 (as stated): after a rebase of e, every descendant of e for which the
\* command carries no explicit alter sub-command has its `ancestors`
\* recomputed, and an alter sub-command recording that value was added, also
\* when the command carries an explicit alter for another descendant.
C4_PerDescendantCascade ==
    (op.kind = "rebase" /\ op.result = "ok") =>
        \A d \in descendants(bases, exists, op.target) \ op.alters :
            /\ ancestors[d] = Some(FreshAncestors(d))
            /\ <<d, FreshAncestors(d)>> \in op.added

\* s occurs in t as an order-preserving subsequence (both without repeats)
IsSubseq(s, t) ==
    /\ Range(s) \subseteq Range(t)
    /\ \A i, j \in 1..Len(s) :
          i < j => \A p, q \in 1..Len(t) : (t[p] = s[i] /\ t[q] = s[j]) => p < q

\* C3: whenever compute_mro(e) succeeds, its result starts with e, holds no
\* entity twice, does not hold e after the head, and holds the linearization
\* of every direct base of e as an order-preserving subsequence.
C3_LinearizationValid ==
    (op.kind = "compute_mro" /\ lin.status = "done") =>
        LET e == op.target
            m == lin.result
        IN  /\ m # <<>> /\ m[1] = e
            /\ IsUnique(m)
            /\ \A i \in 2..Len(m) : m[i] # e
            /\ \A b \in Range(bases[e]) :
                  /\ compute_mro(bases, b, 1).ok
                  /\ IsSubseq(compute_mro(bases, b, 1).mro, m)

\* a linearization that succeeded for an entity with two bases that share an
\* ancestor
C3_Witness ==
    /\ op.kind = "compute_mro" /\ lin.status = "done"
    /\ Len(bases[op.target]) = 2
    /\ AncestorsOf(bases, bases[op.target][1])
          \cap AncestorsOf(bases, bases[op.target][2]) # {}
    /\ Len(lin.result) >= 4

\* every non-empty candidate list's head is in the tail of some non-empty
\* candidate list
Blocked(mros) ==
    /\ \E i \in 1..Len(mros) : mros[i] # <<>>
    /\ \A i \in 1..Len(mros) :
          mros[i] # <<>> =>
             \E k \in 1..Len(mros) :
                \E p \in 2..Len(mros[k]) : mros[k][p] = mros[i][1]

Before(m, x, y) == \E i, j \in 1..Len(m) : i < j /\ m[i] = x /\ m[j] = y

\* the target has bases [B1, B2], B1 linearizes some X before some Y and B2
\* linearizes Y before X
Contradictory ==
    /\ op.kind = "compute_mro"
    /\ Len(bases[op.target]) = 2
    /\ LET m1 == compute_mro(bases, bases[op.target][1], 1)
           m2 == compute_mro(bases, bases[op.target][2], 1)
       IN  /\ m1.ok /\ m2.ok
           /\ \E x, y \in MroEntities : Before(m1.mro, x, y) /\ Before(m2.mro, y, x)

\* C5: a turn of the merge loop raises the ordering error exactly when every
\* non-empty candidate list's head is in the tail of some non-empty candidate
\* list; and an entity with bases [B1, B2] that linearize X, Y in opposite
\* orders never gets an order: its linearization ends with the ordering error.
C5_InconsistencyDetection ==
    [][/\ lin.status = "run" =>
             ((lin'.status = "raise" /\ lin'.err = "SchemaError")
                 <=> Blocked(lin.mros))
       /\ (Contradictory /\ lin'.status \in {"done", "raise"}) =>
             (lin'.status = "raise" /\ lin'.err = "SchemaError")]_vars

\* the linearization of an entity with contradictory bases ended with the
\* ordering error
C5_Witness ==
    Contradictory /\ lin.status = "raise" /\ lin.err = "SchemaError"

\* the base graph of e holds a cycle
Cyclic(b, e) == \E x \in AncestorsOf(b, e) \cup {e} : x \in AncestorsOf(b, x)

\* C6 (as stated): linearizing an entity whose base graph holds a cycle ends
\* with the ordering-inconsistency error.
C6_CycleRejection ==
    (op.kind = "compute_mro" /\ lin.status \in {"done", "raise"}
        /\ Cyclic(bases, op.target)) =>
        (lin.status = "raise" /\ lin.err = "SchemaError")


\* the entries the bases of e expose for key k, one per owner
Inherited(e, k) == ancestry(attrs, k, exposed(full, bases[e], k, 1), 1, <<>>)

\* the descendants of e that hold no local member for k
NonOverriding(e, k) ==
    {d \in descendants(bases, exists, e) : local[d][k] = NoMember}

\* this step runs the innards of a delete command on a member whose owner
\* has a base that still exposes the key
DeleteWithFallback ==
    /\ op'.kind = "delete_ref" /\ op'.result = "ok"
    /\ first_inherited(full, bases[op'.target], op'.key, 1) # NoMember

\* C7 (as stated): when m is deleted from P and a base of P still exposes m
\* as G.m, then after the innards of the delete command P's full collection
\* maps m to G.m and every descendant of P without a local m still has m in
\* its full collection, mapped to G.m.
C7_DeleteFallsBack ==
    [][DeleteWithFallback =>
          LET P == op'.target
              m == op'.key
              G_m == first_inherited(full, bases[P], m, 1)
          IN  /\ full'[P][m] = G_m
              /\ \A d \in NonOverriding(P, m) : full'[d][m] = G_m]_vars

\* C7 (amended): when m is deleted from P and a base of P still exposes m
\* (G.m being the entry of the first such base), then after the innards of
\* the delete command P's full collection maps m to G.m and every descendant
\* of P without a local m has no entry for m in its full collection; when
\* the owner's command then finalizes
\* (acquire_ancestor_inheritance and update_descendants), each of these
\* descendants has an entry for m again.
C7_DeleteStripsThenReacquires ==
    [][/\ DeleteWithFallback =>
             LET P == op'.target
                 m == op'.key
                 G_m == first_inherited(full, bases[P], m, 1)
             IN  /\ full'[P][m] = G_m
                 /\ \A d \in NonOverriding(P, m) : full'[d][m] = NoMember
       /\ (/\ op.kind = "delete_ref" /\ op.result = "ok"
           /\ op'.kind = "alter_finalize"
           /\ full[op.target][op.key] # NoMember) =>
             \A d \in NonOverriding(op.target, op.key) :
                 /\ full[d][op.key] = NoMember
                 /\ full'[d][op.key] # NoMember]_vars

\* the innards of a delete command have run on an owner that falls back to a
\* base's member and has a descendant without a local member
C7_Witness ==
    /\ op.kind = "delete_ref" /\ op.result = "ok"
    /\ full[op.target][op.key] # NoMember
    /\ NonOverriding(op.target, op.key) # {}

\* C8: creating member m under owner P sets m's back-reference to P, puts m
\* in P's full and local collections and in the full (not the local)
\* collection of every transitive descendant of P without a local member for
\* the key, by the one command on P; a descendant with a local member keeps
\* its entries.
C8_PropagationOnAdd ==
    [][op'.kind = "create_ref" =>
          LET P == op'.target
              k == op'.key
              m == local'[P][k]
          IN  /\ m # NoMember /\ local[P][k] = NoMember
              /\ attrs'[m][k].backref = P
              /\ full'[P][k] = m
              /\ \A d \in descendants(bases, exists, P) :
                    IF local[d][k] = NoMember
                    THEN full'[d][k] = m /\ local'[d][k] = NoMember
                    ELSE full'[d][k] = full[d][k] /\ local'[d][k] = local[d][k]
              /\ \A e \in exists \ (descendants(bases, exists, P) \cup {P}) :
                    full'[e] = full[e] /\ local'[e] = local[e]]_vars

\* a member was created under an owner with one descendant that takes it and
\* one descendant that keeps a local member of its own
C8_Witness ==
    /\ op.kind = "create_ref"
    /\ \E d \in descendants(bases, exists, op.target) :
          local[d][op.key] = NoMember /\ full[d][op.key] = op.target
    /\ \E d \in descendants(bases, exists, op.target) :
          local[d][op.key] = d /\ full[d][op.key] = d

\* this step is a finalize of D, which has two bases that expose the same
\* member for m and no local m
DiamondCall(D, m) ==
    /\ op'.kind = "finalize" /\ op'.target = D
    /\ Len(bases[D]) = 2
    /\ full[bases[D][1]][m] # NoMember
    /\ full[bases[D][1]][m] = full[bases[D][2]][m]
    /\ local[D][m] = NoMember

\* this step derives a member of D under m from several bases
Synthesized(D, m) ==
    /\ op'.kind = "finalize" /\ op'.target = D
    /\ attrs[D][m].kind = "none" /\ attrs'[D][m].kind = "derived"

\* C9 (as stated): when both bases of D expose for m the same member, owned
\* by a common ancestor, and D has no local m, then merge_classref_dict maps m
\* in D's full collection to that very member, creates no member and adds
\* nothing to D's local collection; a member is synthesized only when the
\* bases' entries have at least two distinct owners.
C9_DiamondShares ==
    [][\A D \in Entities, m \in Keys :
          /\ DiamondCall(D, m) =>
                /\ op'.result = "ok"
                /\ full'[D][m] = full[bases[D][1]][m]
                /\ local'[D][m] = NoMember
                /\ attrs'[D][m].kind = "none"
          /\ Synthesized(D, m) =>
                Cardinality({attrs[x][m].backref :
                                x \in Range(exposed(full, bases[D], m, 1))}) >= 2]_vars

\* C9 (amended): as stated, provided the member class's inherit_pure shares
\* the member; when it materializes a copy instead, D's full and local
\* collections map m to the copy, a new member owned by D.  derive_from_root
\* synthesizes a member only when the bases' entries have at least two
\* distinct owners.
C9_DiamondSharesWhenPure ==
    [][\A D \in Entities, m \in Keys :
          /\ DiamondCall(D, m) =>
                /\ op'.result = "ok"
                /\ Len(Inherited(D, m)) = 1
                /\ IF refdict.ref_cls.copies
                   THEN /\ full'[D][m] = D /\ local'[D][m] = D
                        /\ attrs'[D][m].kind = "copy"
                        /\ attrs'[D][m].backref = D
                   ELSE /\ full'[D][m] = full[bases[D][1]][m]
                        /\ local'[D][m] = NoMember
                        /\ attrs'[D][m].kind = "none"
          /\ Synthesized(D, m) =>
                Cardinality({attrs[x][m].backref :
                                x \in Range(exposed(full, bases[D], m, 1))}) >= 2]_vars

\* a finalize has left an entity with two bases sharing the member both bases
\* expose, with no local member
C9_Witness ==
    /\ op.kind = "finalize" /\ op.result = "ok"
    /\ Len(bases[op.target]) = 2
    /\ \E m \in Keys :
          /\ full[bases[op.target][1]][m] # NoMember
          /\ full[bases[op.target][1]][m] = full[bases[op.target][2]][m]
          /\ full[op.target][m] = full[bases[op.target][1]][m]
          /\ local[op.target][m] = NoMember

\* this step is a finalize of e, which has a local member for k while a base
\* exposes k, in a collection that requires explicit inherit
CollidingCall(e, k) ==
    /\ op'.kind = "finalize" /\ op'.target = e
    /\ local[e][k] # NoMember
    /\ \E b \in Range(bases[e]) : full[b][k] # NoMember
    /\ refdict.requires_explicit_inherit

\* the call ends with the definition error and returns no schema
FailsWithDefinitionError ==
    /\ op'.result = MustDeclareInherited
    /\ UNCHANGED <<refVars, hierVars>>

\* the call succeeds and the entry for k is the local member, finalized with
\* the inherited members as its bases
MergedOntoInherited(e, k) ==
    /\ op'.result = "ok"
    /\ full'[e][k] = local[e][k]
    /\ local'[e][k] = local[e][k]
    /\ <<local[e][k], Inherited(e, k)>> \in op'.finalized

C11_RebaseAllOrNothing ==
    [][(op'.kind = "rebase" /\ op'.result \in {"SchemaError", "RecursionError"}) =>
          /\ op'.result = "SchemaError"
          /\ UNCHANGED <<hierVars, refVars>>]_vars

\* the names some group of the script adds
ReAdded(added_bases) ==
    UNION {Range(added_bases[g].bases) : g \in 1..Len(added_bases)}

\* C12 (as stated): after RebaseInheritingObject.apply succeeds, no base
\* whose name is in removed_bases remains in the entity's base list, unless
\* an added group re-adds the same name; this for every current base list,
\* also one in which two or more bases to be removed are adjacent.
C12_RemovedBasesGone ==
    (dpc = "applied" /\ dResult.ok) =>
       \A b \in dScript.removed :
          b \in Range(dResult.bases) => b \in ReAdded(dScript.added)

\* the entities a rebase of e works on: e and its descendants
RebaseObjects(e) == {e} \cup descendants(bases, exists, e)

\* key k of obj is in the full collection, absent from the local one, was
\* defined by an ancestor before the step and by no ancestor after it
ExposedOnlyThroughRemoved(obj, k) ==
    /\ full[obj][k] # NoMember
    /\ local[obj][k] = NoMember
    /\ \E a \in AncestorsOf(bases, obj) : local[a][k] # NoMember
    /\ \A a \in AncestorsOf(bases', obj) : local[a][k] = NoMember

\* C13 (as stated): after a rebase of e that removes a base, for e and every
\* descendant of e, a key that was in the full collection, is absent from the
\* local collection and was exposed only through the removed base (no
\* surviving ancestor defines it) is no longer in the stored full collection.
C13_StaleRefsPruned ==
    [][(/\ op'.kind = "rebase"
        /\ op'.result = "ok"
        /\ Range(bases[op'.target]) \ Range(bases'[op'.target]) # {}) =>
          \A obj \in RebaseObjects(op'.target) : \A k \in Keys :
             ExposedOnlyThroughRemoved(obj, k) => full'[obj][k] = NoMember]_vars

\* the first entity of ancestors(e), in linearization order, that locally
\* defines k; NoRef when there is none
Origin(e, k) ==
    LET owners == SelectSeq(ancestors[e].val, LAMBDA a : local[a][k] # NoMember)
    IN  IF owners = <<>> THEN NoRef ELSE owners[1]

\* C14 (as stated): after any sequence of member creations and deletions,
\* for every entity e and key k in e's full collection but not in its local
\* one, the stored member is the one locally defined by the first entity of
\* ancestors(e) that locally defines k; a descendant below an overriding
\* intermediate entity keeps the intermediate's definition.
C14_OriginInvariant ==
    ~InCommand =>
       \A e \in exists : \A k \in Keys :
          (full[e][k] # NoMember /\ local[e][k] = NoMember) =>
             /\ Origin(e, k) # NoRef
             /\ full[e][k] = local[Origin(e, k)][k]

\* new is old with bases inserted: every old base is in new, in old's order
InsertOnly(old, new) ==
    SelectSeq(new, LAMBDA b : b \in Range(old)) = old

RECURSIVE RunGroups(_, _, _, _, _)
\* one group per maximal contiguous run of new-only bases of new, anchored
\* BEFORE the retained base that follows the run, or LAST when none follows
RunGroups(old, new, i, run, acc) ==
    IF i > Len(new)
    THEN IF run = <<>> THEN acc ELSE Append(acc, Group(run, "LAST", NoRef))
    ELSE IF new[i] \in Range(old)
    THEN RunGroups(old, new, i + 1, <<>>,
                   IF run = <<>> THEN acc
                   ELSE Append(acc, Group(run, "BEFORE", new[i])))
    ELSE RunGroups(old, new, i + 1, Append(run, new[i]), acc)

\* C15: when new is obtained from old only by inserting bases,
\* delta_bases(old, new) returns removed = () and exactly one added group per
\* maximal contiguous run of new-only bases, each listing the run in new's
\* order and anchored BEFORE the retained base that follows it, or LAST.
C15_DeltaMinimality ==
    (dpc # "start" /\ InsertOnly(dOld, dNew)) =>
       /\ dScript.removed = {}
       /\ dScript.added = RunGroups(dOld, dNew, 1, <<>>, <<>>)

\* a base inserted before a retained base and another after the last one
C15_Witness ==
    /\ dpc # "start"
    /\ InsertOnly(dOld, dNew)
    /\ Len(dScript.added) = 2
    /\ dScript.added[1].pos = "BEFORE"
    /\ dScript.added[2].pos = "LAST"

\* C16: for all duplicate-free old and new, the removed result of
\* delta_bases(old, new) is, as a set, exactly the old bases absent from new,
\* and no base name occurs both in removed and in an added group.
C16_RemovedExact ==
    dpc # "start" =>
       /\ dScript.removed = {b \in Range(dOld) : b \notin Range(dNew)}
       /\ dScript.removed \cap ReAdded(dScript.added) = {}

\* a script that both removes and adds
C16_Witness ==
    /\ dpc # "start"
    /\ dScript.removed # {}
    /\ dScript.added # <<>>

\* the places (group, index) at which the script names base b
Placements(added_bases, b) ==
    UNION {{<<g, i>> : i \in {i \in DOMAIN added_bases[g].bases :
                                 added_bases[g].bases[i] = b}} :
           g \in DOMAIN added_bases}

\* C17 (as stated): for all duplicate-free old and new, every base in every
\* added group of delta_bases(old, new) is absent from old, each new-only
\* base occurs in exactly one group, and bases retained from old are never
\* placed in a group, also when new reorders the retained bases.
C17_GroupsHoldNewOnly ==
    dpc # "start" =>
       /\ ReAdded(dScript.added) \cap Range(dOld) = {}
       /\ \A b \in Range(dNew) \ Range(dOld) :
             Cardinality(Placements(dScript.added, b)) = 1

RECURSIVE DistinctOwners(_, _, _, _)
\* the entries of seq, one per owner, in the order the owners first occur
DistinctOwners(at, k, seq, acc) ==
    IF seq = <<>> THEN acc
    ELSE DistinctOwners(at, k, Tail(seq),
            IF \E j \in 1..Len(acc) :
                  at[acc[j]][k].backref = at[Head(seq)][k].backref
            THEN acc ELSE Append(acc, Head(seq)))

\* the members the bases of e expose for k before the step, one per owner
InheritedMembers(e, k) ==
    DistinctOwners(attrs, k,
                   SelectSeq([i \in 1..Len(bases[e]) |-> full[bases[e][i]][k]],
                             LAMBDA x : x # NoMember),
                   <<>>)

\* C18: in merge_classref_dict, when the entity has no local member for a key
\* and its bases expose members for that key with two or more distinct
\* owners, exactly one new member is derived, owned by this entity, flagged
\* inherited, with merge_bases equal to the distinct inherited members (one
\* per owner, in base order), and that member becomes the entry for the key.
C18_DiamondSynthesis ==
    [][op'.kind = "finalize" =>
          \A k \in Keys :
             LET e == op'.target
             IN  (local[e][k] = NoMember /\ Len(InheritedMembers(e, k)) >= 2) =>
                    /\ op'.result = "ok"
                    /\ full'[e][k] = e
                    /\ local'[e][k] = e
                    /\ attrs'[e][k] =
                          Member("derived", TRUE, FALSE, InheritedMembers(e, k), e)
                    /\ \A x \in Entities \ {e} : attrs'[x] = attrs[x]]_vars

\* a finalize has just synthesized a member from two owners
C18_Witness ==
    /\ op.kind = "finalize"
    /\ op.result = "ok"
    /\ \E k \in Keys :
          /\ attrs[op.target][k].kind = "derived"
          /\ Len(attrs[op.target][k].merge_bases) >= 2
          /\ full[op.target][k] = op.target

\* C19: after merge_classref_dict, a key whose result is a pure-inheritance
\* share of a base's member is in the entity's full collection and not added
\* to its local collection; a key whose result is non-pure (a local member
\* merged onto inherited ones, a synthesized diamond member or a materialized
\* copy) is in both collections; both collections are written in one update
\* at the end of the call, so a call that raises writes neither.
C19_CollectionPlacement ==
    [][op'.kind = "finalize" =>
          \A k \in Keys :
             LET e == op'.target
                 loc == local[e][k]
                 inh == InheritedMembers(e, k)
                 shares == ~refdict.ref_cls.copies
             IN  /\ (op'.result = "ok" /\ loc = NoMember /\ Len(inh) = 1 /\ shares) =>
                       full'[e][k] = inh[1] /\ local'[e][k] = NoMember
                 /\ (op'.result = "ok" /\ loc = NoMember /\ Len(inh) = 1 /\ ~shares) =>
                       /\ full'[e][k] = e /\ local'[e][k] = e
                       /\ attrs'[e][k].kind = "copy"
                 /\ (op'.result = "ok" /\ loc = NoMember /\ Len(inh) >= 2) =>
                       /\ full'[e][k] = e /\ local'[e][k] = e
                       /\ attrs'[e][k].kind = "derived"
                 /\ (op'.result = "ok" /\ loc # NoMember /\ inh # <<>>) =>
                       full'[e][k] = loc /\ local'[e][k] = loc
                 /\ op'.result # "ok" =>
                       full'[e][k] = full[e][k] /\ local'[e][k] = local[e][k]]_vars

\* a finalize has just placed a shared member in the full collection alone
\* of an entity that did not have the key
C19_Witness ==
    /\ op.kind = "finalize"
    /\ op.result = "ok"
    /\ \E k \in Keys :
          /\ full[op.target][k] \notin {NoMember, op.target}
          /\ local[op.target][k] = NoMember

\* C20: in merge_classref_dict, a key for which the entity has a local member
\* declared inherited while no base exposes that key makes the call fail with
\* the definition error "cannot be declared inherited"; a key with neither a
\* local member nor an inherited one is skipped and leaves both collections
\* unchanged.
C20_DeclaredInheritedWithoutAncestors ==
    [][op'.kind = "finalize" =>
          \A k \in Keys :
             LET e == op'.target
                 loc == local[e][k]
                 inh == InheritedMembers(e, k)
             IN  /\ (/\ loc # NoMember
                     /\ attrs[loc][k].declared_inherited
                     /\ inh = <<>>) =>
                       /\ op'.result = CannotDeclareInherited
                       /\ UNCHANGED refVars
                 /\ (loc = NoMember /\ inh = <<>>) =>
                       /\ op'.result = "ok"
                       /\ full'[e][k] = full[e][k]
                       /\ local'[e][k] = NoMember]_vars

\* a finalize has just failed on a member declared inherited
C20_Witness ==
    /\ op.kind = "finalize"
    /\ op.result = CannotDeclareInherited
    /\ \E k \in Keys :
          /\ local[op.target][k] # NoMember
          /\ attrs[local[op.target][k]][k].declared_inherited

\* a finalize has just passed over a key that neither the entity nor any of
\* its bases defines (the entry a rebase left behind)
C20_SkippedStaleKey ==
    /\ op.kind = "finalize"
    /\ \E k \in Keys :
          /\ full[op.target][k] # NoMember
          /\ local[op.target][k] = NoMember
          /\ \A i \in 1..Len(bases[op.target]) : full[bases[op.target][i]][k] = NoMember

\* no base of P has an entry for key k
NoBaseExposes(P, k) ==
    \A i \in 1..Len(bases[P]) : full[bases[P][i]][k] = NoMember

\* C21 (as stated): when member key m is deleted from owner P and no base of
\* P exposes m (including when P has no bases at all), the deletion succeeds
\* and m is absent afterwards from P's full and local collections and from
\* the full collection of every descendant of P that does not locally define
\* m; descendants that locally define m keep their entry.
C21_DeleteWithoutFallback ==
    [][(op'.kind = "delete_ref" /\ NoBaseExposes(op'.target, op'.key)) =>
          LET P == op'.target
              m == op'.key
          IN  /\ op'.result = "ok"
              /\ full'[P][m] = NoMember
              /\ local'[P][m] = NoMember
              /\ \A d \in descendants(bases, exists, P) :
                    IF local[d][m] = NoMember
                    THEN full'[d][m] = NoMember
                    ELSE full'[d][m] = full[d][m] /\ local'[d][m] = local[d][m]]_vars

\* C22 (as stated): init_derived on an entity whose derived name equals the
\* entity's own name fails with a definition error before any object is
\* created, so the schema is unchanged; this for every derivation mode
\* (as_copy true or false).
C22_SelfDerivationRejected ==
    [][\A e \in UserEntities, as_copy \in BOOLEAN :
          Derive(e, e, as_copy) =>
             /\ op'.result \in {"SchemaError"} \cup DefinitionErrors
             /\ op'.added = {}
             /\ UNCHANGED <<hierVars, refVars>>]_vars

\* the base list RebaseInheritingObject.apply has rebuilt when it reaches
\* line 264, before the fallback to the default base
Reconstructed(e, removed_bases, added_bases) ==
    LET default == get_default_base_name(hasDefault)
        start == IF default # NoRef /\ bases[e] = <<default>> THEN <<>>
                 ELSE bases[e]
        kept == remove_walk(start, removed_bases, 1, {})
    IN  splice_walk(kept.bases, added_bases, 1, kept.existing)

\* the entities the fallback is for: neither a root class nor the default base
NeedsBase(e) ==
    /\ e \notin get_root_classes(hasDefault)
    /\ e # get_default_base_name(hasDefault)

\* C23: for a class that has a default base, every entity that is not a root
\* class and not the default base itself has a non-empty base list: after a
\* creation with an empty declared list, and after a rebase whose
\* reconstruction leaves the list empty, the list is [default base].
C23_DefaultBaseFallback ==
    [][/\ \A e \in exists' : NeedsBase(e) => bases'[e] # <<>>
       /\ \A e \in UserEntities :
             (op'.kind = "create" /\ op'.result = "ok" /\ Create(e, <<>>)) =>
                bases'[e] = <<DefaultBaseName>>
       /\ \A e \in UserEntities \cap exists :
             \A removed_bases \in RemovedInputs(e), added_bases \in AddedInputs(e) :
                (/\ op'.kind = "rebase" /\ op'.result = "ok" /\ op'.target = e
                 /\ Reconstructed(e, removed_bases, added_bases).bases = <<>>
                 /\ Rebase(e, removed_bases, added_bases)) =>
                   bases'[e] = <<DefaultBaseName>>]_vars

\* a rebase has just ended with the default base as the entity's only base
C23_Witness ==
    /\ hasDefault
    /\ op.kind = "rebase"
    /\ op.result = "ok"
    /\ bases[op.target] = <<DefaultBaseName>>

\* C24 (as stated): when a creation or a rebase leaves an entity with no
\* bases and its class has no default base, the operation fails with a
\* missing-root error instead of returning a schema in which the entity has
\* an empty base list.
C24_MissingRootError ==
    [][(~hasDefault /\ op'.kind \in {"create", "rebase"} /\ op'.result = "ok") =>
          bases'[op'.target] # <<>>]_vars

\* C24 (amended): for a class without default base no missing-root error is
\* raised.  A creation with an empty declared list succeeds and stores the
\* entity with an empty base list and no `ancestors`; a rebase whose rebuilt
\* list is empty ends with the linearization error of a descendant or
\* succeeds, storing an empty base list and empty `ancestors`.
C24_EmptyBasesAccepted ==
    [][~hasDefault =>
          /\ \A e \in UserEntities :
                (op'.kind = "create" /\ Create(e, <<>>)) =>
                   /\ op'.result = "ok"
                   /\ e \in exists'
                   /\ bases'[e] = <<>>
                   /\ ancestors'[e] = None
          /\ \A e \in UserEntities \cap exists :
                \A removed_bases \in RemovedInputs(e), added_bases \in AddedInputs(e) :
                   (/\ op'.kind = "rebase" /\ op'.target = e
                    /\ Reconstructed(e, removed_bases, added_bases).ok
                    /\ Reconstructed(e, removed_bases, added_bases).bases = <<>>
                    /\ Rebase(e, removed_bases, added_bases)) =>
                      /\ op'.result \in {"ok", "SchemaError", "RecursionError"}
                      /\ op'.result = "ok" =>
                            bases'[e] = <<>> /\ ancestors'[e] = Some(<<>>)]_vars

\* a rebase has just left an entity of a class without default base with an
\* empty base list
C24_Witness ==
    /\ ~hasDefault
    /\ op.kind = "rebase"
    /\ op.result = "ok"
    /\ bases[op.target] = <<>>
    /\ ancestors[op.target] = Some(<<>>)

\* C25 (as stated): starting from a base list with unique names, the base
\* list stored by RebaseInheritingObject.apply has unique names, for every
\* removed set and every sequence of added groups, including groups that
\* name a base already present.
C25_BaseListUnique ==
    [][(/\ op'.kind = "rebase"
        /\ op'.result = "ok"
        /\ IsUnique(bases[op'.target])) =>
          IsUnique(bases'[op'.target])]_vars

\* C26: a rebase of entity e changes, among the `bases` and `ancestors` fields
\* of all entities, only e.bases, e.ancestors and the `ancestors` of e's
\* transitive descendants; the `bases` of every descendant and the `bases`
\* and `ancestors` of every entity that is neither e nor a descendant of e
\* are unchanged.
C26_RebaseFrame ==
    [][op'.kind = "rebase" =>
          LET e == op'.target
              ds == descendants(bases, exists, e) \cup descendants(bases', exists, e)
          IN  /\ exists' = exists
              /\ \A x \in Entities \ {e} : bases'[x] = bases[x]
              /\ \A x \in Entities \ ({e} \cup ds) : ancestors'[x] = ancestors[x]]_vars

\* a rebase has just changed the base list of an entity with a descendant,
\* whose `ancestors` were recomputed, next to an entity outside the hierarchy
C26_Witness ==
    /\ op.kind = "rebase"
    /\ op.result = "ok"
    /\ op.added # {}
    /\ \E x \in exists \ {op.target} :
          x \notin descendants(bases, exists, op.target)

\* C27: InheritingObject.delta(old, new) adds a rebase sub-operation if and
\* only if both old and new exist, their base-name sequences differ (in
\* membership or in order) and a rebase command class is registered; it then
\* adds exactly one, carrying removed_bases and added_bases equal to
\* delta_bases(old names, new names) and new_base equal to the new names.
C27_DeltaAddsRebase ==
    [][\A old \in BOOLEAN, new \in BOOLEAN, rebase \in BOOLEAN :
          DeltaCmd(old, new, rebase) =>
             /\ op'.added # {} <=> (old /\ new /\ dOld # dNew /\ rebase)
             /\ op'.added # {} =>
                   /\ nrebase' = 1
                   /\ op'.added = {RebaseCmd(delta_bases(dOld, dNew).removed,
                                             delta_bases(dOld, dNew).added,
                                             dNew)}]_vars

\* a comparison of two orders of the same bases has just added a rebase
C27_Witness ==
    /\ dpc = "compared"
    /\ nrebase = 1
    /\ Range(dOld) = Range(dNew)
    /\ \E c \in op.added : c.new_base = dNew /\ c.removed_bases = {}

RECURSIVE Elements(_)
\* the number of elements the candidate lists hold
Elements(mros) ==
    IF mros = <<>> THEN 0 ELSE Len(Head(mros)) + Elements(Tail(mros))

\* C28: for every entity over a finite acyclic base graph, compute_mro returns
\* an order or raises the ordering error, and every turn of the merge loop
\* that goes on to another turn has removed at least one element from the
\* candidate lists, so the loop ends within as many turns as they hold.
C28_LinearizationTerminates ==
    [][/\ (lin.status = "run" /\ lin'.status = "run") =>
             Elements(lin'.mros) < Elements(lin.mros)
       /\ (lin.status = "run" /\ lin'.status # "run") =>
             \/ lin'.status = "done" /\ Elements(lin.mros) = 0
             \/ lin'.status = "raise" /\ lin'.err = "SchemaError"
       /\ (lin.status = "idle" /\ ~Cyclic(bases, op.target)) =>
             lin'.status = "run" /\ Elements(lin'.mros) >= 1]_vars

\* the merge loop has returned an order of four entities
C28_Witness ==
    /\ ~Cyclic(bases, op.target)
    /\ lin.status = "done"
    /\ Len(lin.result) >= 4

\* the place of x in the order s
Place(s, x) == CHOOSE i \in 1..Len(s) : s[i] = x

\* compute_mro has returned the order of op.target
Linearized == op.kind = "compute_mro" /\ lin.status = "done"

\* C29 (as stated): whenever compute_mro(e) succeeds, the direct bases of e
\* occur in the result in the order in which e.bases declares them, also when
\* a later-declared base is itself a descendant of an earlier-declared one.
C29_LocalPrecedence ==
    Linearized =>
       LET b == bases[op.target]
       IN  \A i \in 1..Len(b), j \in 1..Len(b) :
              i < j => Place(lin.result, b[i]) < Place(lin.result, b[j])

\* x is an ancestor of a direct base of the entity being linearized
AboveABase(x) ==
    \E k \in 1..Len(bases[op.target]) :
       x \in AncestorsOf(bases, bases[op.target][k])

\* C29 (amended): whenever compute_mro(e) succeeds, a direct base of e that
\* is an ancestor of another direct base comes after that base, whatever the
\* declared order; two distinct direct bases of which neither is an ancestor
\* of a direct base of e occur in the order in which e.bases declares them.
C29_LocalPrecedenceUnlessAncestor ==
    Linearized =>
       LET b == bases[op.target]
       IN  \A i \in 1..Len(b), j \in 1..Len(b) :
              /\ b[i] \in AncestorsOf(bases, b[j]) =>
                    Place(lin.result, b[j]) < Place(lin.result, b[i])
              /\ (i < j /\ b[i] # b[j] /\ ~AboveABase(b[i]) /\ ~AboveABase(b[j])) =>
                    Place(lin.result, b[i]) < Place(lin.result, b[j])

\* an entity whose second base descends from its first has been linearized
C29_Witness ==
    /\ Linearized
    /\ \E i \in 1..Len(bases[op.target]), j \in 1..Len(bases[op.target]) :
          /\ i < j
          /\ bases[op.target][i] \in AncestorsOf(bases, bases[op.target][j])

RECURSIVE Embeds(_, _)
\* s can be read off t from left to right, skipping elements of t
Embeds(s, t) ==
    IF s = <<>> THEN TRUE
    ELSE IF t = <<>> THEN FALSE
    ELSE IF Head(s) = Head(t) THEN Embeds(Tail(s), Tail(t))
    ELSE Embeds(s, Tail(t))

\* the bases of e that the rebase is not asked to remove, in their order
Retained(e, removed_bases) ==
    SelectSeq(bases[e], LAMBDA x : x \notin removed_bases)

\* the step is a successful rebase of e with these arguments
RebasedWith(e, removed_bases, added_bases) ==
    /\ op'.kind = "rebase" /\ op'.result = "ok" /\ op'.target = e
    /\ Rebase(e, removed_bases, added_bases)

C31_LocalWithinFull ==
    \A e \in exists : \A k \in Keys :
        local[e][k] # NoMember => full[e][k] = local[e][k]

\* merge_classref_dict has just put a member synthesized for the entity into
\* both of its collections, over members its bases expose
C31_Witness ==
    /\ op.kind = "finalize"
    /\ op.result = "ok"
    /\ \E k \in Keys :
          /\ local[op.target][k] = op.target
          /\ attrs[op.target][k].kind \in {"derived", "copy"}
          /\ \E x \in Range(bases[op.target]) : full[x][k] \notin {NoMember, op.target}

\* the shape of a script: no FIRST anchor, no empty group, a LAST group only
\* as the final group, and every BEFORE anchor names a base of old and of new
ScriptShape(script, old, new) ==
    \A g \in 1..Len(script.added) :
        LET grp == script.added[g]
        IN  /\ grp.pos \in {"BEFORE", "LAST"}
            /\ grp.bases # <<>>
            /\ grp.pos = "LAST" => g = Len(script.added)
            /\ grp.pos = "BEFORE" => grp.ref \in Range(old) \cap Range(new)

\* C33 (as stated): for all duplicate-free old and new, delta_bases returns
\* no FIRST anchor, at most one LAST group and only as the final group, no
\* empty group, and BEFORE anchors that name a base of both old and new, so
\* that every anchor resolves to a position when the script is applied to old
\* after the removals.
C33_AnchorsResolve ==
    /\ dpc \in {"script", "applied"} => ScriptShape(dScript, dOld, dNew)
    /\ dpc = "applied" => dResult.ok

\* the shape holds of every script, and the anchors resolve whenever the
\* list the script is applied to is not the lone default base, which
\* RebaseInheritingObject.apply empties before it looks up the anchors
C33_ResolveUnlessLoneDefault ==
    /\ dpc \in {"script", "applied"} => ScriptShape(dScript, dOld, dNew)
    /\ dpc = "applied" /\ ~(hasDefault /\ dOld = <<DefaultBaseName>>) => dResult.ok

RECURSIVE FirstExposing(_, _, _)
\* the member under k of the first base in bs that has one outside its
\* non-inheritable collection, or NoMember
FirstExposing(bs, k, i) ==
    IF i > Len(bs) THEN NoMember
    ELSE IF full[bs[i]][k] # NoMember /\ k \notin non_inheritable[bs[i]]
         THEN full[bs[i]][k]
         ELSE FirstExposing(bs, k, i + 1)

\* the step is a call of acquire_ancestor_inheritance on e
AcquiredOn(e) == op'.kind = "acquire" /\ op' # op /\ op'.target = e

\* C32: acquire_ancestor_inheritance (merge over the bases) only adds to the
\* full collection of the entity: a key it holds keeps its member, a key it
\* lacks takes the member of the first base in declaration order that exposes
\* it outside that base's non-inheritable collection, the local collection
\* is unchanged, and a second call in a row changes nothing.
C32_AcquireOnlyAdds ==
    [][\A e \in Entities :
          AcquiredOn(e) =>
             /\ \A k \in Keys :
                   full'[e][k] = IF full[e][k] # NoMember THEN full[e][k]
                                 ELSE FirstExposing(bases[e], k, 1)
             /\ \A x \in Entities \ {e} : full'[x] = full[x]
             /\ local' = local
             /\ acquire_ancestor_inheritance(full', bases', e) = full']_vars

\* a call has just added a key, passing over a first base that holds the key
\* in its non-inheritable collection
C32_Witness ==
    /\ op.kind = "acquire"
    /\ \E k \in op.added :
          LET bs == bases[op.target]
          IN  /\ Len(bs) = 2
              /\ k \in non_inheritable[bs[1]]
              /\ full[bs[1]][k] \notin {NoMember, full[op.target][k]}
              /\ full[bs[2]][k] = full[op.target][k]

=====
